---- MODULE Spec2Model ----
(***************************************************************************)
(* Model of the prompt-debugger extension (src/index.js): the field        *)
(* pruning function cleanObject, the console reporter logPromptStruct,     *)
(* the CHAT_COMPLETION_PROMPT_READY handler and the settings handlers.     *)
(*                                                                         *)
(* JavaScript values are modelled with an explicit heap: a primitive is a  *)
(* tagged record, an array or an object is a cell of the heap and a value  *)
(* that denotes it is a reference (its address).  Allocation appends a     *)
(* cell, an assignment to a property rewrites a cell, so that aliasing,    *)
(* mutation and self-reference are all expressible.                        *)
(***************************************************************************)
EXTENDS Integers, Sequences, FiniteSets, TLC

VARIABLES settings, heap, orig, snapshot, console, uncaught, delivered,
          toggles, pc, res1, res2

vars == <<settings, heap, orig, snapshot, console, uncaught, delivered,
          toggles, pc, res1, res2>>

(***************************************************************************)
(* Bounds of the model.                                                    *)
(***************************************************************************)
MaxNodes == 4       \* nodes of a generated input structure
MaxEvents == 2      \* prompt-ready events delivered in one behaviour
MaxToggles == 2     \* checkbox changes in one behaviour

(***************************************************************************)
(* JavaScript values.                                                      *)
(***************************************************************************)
Null == [t |-> "null"]
Undefined == [t |-> "undef"]
Num(n) == [t |-> "num", n |-> n]
Str(s) == [t |-> "str", s |-> s]
Bool(b) == [t |-> "bool", b |-> b]
Ref(a) == [t |-> "ref", a |-> a]

\* Heap cells, and (with trees in place of references) structures by value.
Arr(vs) == [t |-> "arr", vs |-> vs]
Obj(ks, vs) == [t |-> "obj", ks |-> ks, vs |-> vs]

\* A console argument slot that carries nothing.
NoArg == [t |-> "none"]

IsNullish(v) == v.t \in {"null", "undef"}

\* typeof v === 'object' for a value that is not null
TypeofObject(v) == v.t = "ref"

\* Array.isArray(v)
IsArray(h, v) == v.t = "ref" /\ h[v.a].t = "arr"

\* JavaScript truthiness, as used by if (x) and x || y
Truthy(v) ==
    CASE v.t = "null" -> FALSE
      [] v.t = "undef" -> FALSE
      [] v.t = "num" -> v.n # 0
      [] v.t = "str" -> v.s # ""
      [] v.t = "bool" -> v.b
      [] OTHER -> TRUE

\* The property names of array indices.
IndexNames == <<"0", "1", "2", "3", "4", "5", "6", "7">>

\* The enumerable own keys of a value that is not null or undefined, in
\* for-in / Object.keys order.
OwnKeys(h, v) ==
    CASE v.t = "ref" /\ h[v.a].t = "obj" -> h[v.a].ks
      [] v.t = "ref" /\ h[v.a].t = "arr" -> SubSeq(IndexNames, 1, Len(h[v.a].vs))
      [] v.t = "str" -> SubSeq(IndexNames, 1, Len(v.s))
      [] OTHER -> <<>>

\* Position of key k in the key sequence ks, 0 when absent.
KeyPos(ks, k) ==
    IF \E i \in 1..Len(ks) : ks[i] = k
    THEN CHOOSE i \in 1..Len(ks) : ks[i] = k
    ELSE 0

\* v[k] for a value v that is not null or undefined (a member access on a
\* primitive or a missing key yields undefined).
GetProp(h, v, k) ==
    IF v.t = "ref"
    THEN LET p == KeyPos(OwnKeys(h, v), k)
         IN IF p = 0 THEN Undefined ELSE h[v.a].vs[p]
    ELSE Undefined

\* obj[k] = val on the object cell at address a.
SetProp(h, a, k, val) ==
    LET p == KeyPos(h[a].ks, k)
    IN IF p = 0
       THEN [h EXCEPT ![a] = Obj(Append(h[a].ks, k), Append(h[a].vs, val))]
       ELSE [h EXCEPT ![a] = Obj(h[a].ks, [h[a].vs EXCEPT ![p] = val])]

(***************************************************************************)
(* Structures by value: building one in the heap and reading one back.     *)
(***************************************************************************)
\* The element of a singleton.  Only({e : x \in {d}}) is e with x bound to
\* the value of d, computed before e is, as JavaScript computes it.
Only(S) == CHOOSE x \in S : TRUE

RECURSIVE Build(_, _), BuildSeq(_, _)

\* Allocate the structure tr; the children are allocated before the parent.
Build(h, tr) ==
    IF tr.t \notin {"arr", "obj"}
    THEN [h |-> h, v |-> tr]
    ELSE Only({ [h |-> Append(kids.h, IF tr.t = "arr"
                                      THEN Arr(kids.vs)
                                      ELSE Obj(tr.ks, kids.vs)),
                 v |-> Ref(Len(kids.h) + 1)] :
                kids \in {BuildSeq(h, tr.vs)} })

BuildSeq(h, trs) ==
    IF trs = <<>>
    THEN [h |-> h, vs |-> <<>>]
    ELSE Only({ Only({ [h |-> rest.h, vs |-> <<first.v>> \o rest.vs] :
                       rest \in {BuildSeq(first.h, Tail(trs))} }) :
                first \in {Build(h, Head(trs))} })

RECURSIVE DerefOn(_, _, _)

\* The structure the value v denotes in heap h; a reference back into the
\* path that leads to it is read as a cycle marker.
DerefOn(h, v, path) ==
    IF v.t # "ref"
    THEN v
    ELSE IF v.a \in path
    THEN [t |-> "cycle", a |-> v.a]
    ELSE IF h[v.a].t = "arr"
    THEN Arr([i \in 1..Len(h[v.a].vs) |->
                DerefOn(h, h[v.a].vs[i], path \cup {v.a})])
    ELSE Obj(h[v.a].ks,
             [i \in 1..Len(h[v.a].vs) |->
                DerefOn(h, h[v.a].vs[i], path \cup {v.a})])

Deref(h, v) == DerefOn(h, v, {})

RECURSIVE HasCycle(_)
HasCycle(tr) ==
    \/ tr.t = "cycle"
    \/ /\ tr.t \in {"arr", "obj"}
       /\ \E i \in 1..Len(tr.vs) : HasCycle(tr.vs[i])

(***************************************************************************)
(* JSON.stringify and JSON.parse.  The serialized text is represented by   *)
(* the structure it spells; what serialization loses is modelled: an       *)
(* undefined property is omitted, an undefined array element becomes null, *)
(* a reference cycle throws.                                               *)
(***************************************************************************)
Thrown(name) == [t |-> "throw", name |-> name]

RECURSIVE ObjOf(_, _)
\* The object with the keys of ks whose value in vs is not undefined.
ObjOf(ks, vs) ==
    IF ks = <<>>
    THEN Obj(<<>>, <<>>)
    ELSE IF Head(vs).t = "undef"
    THEN ObjOf(Tail(ks), Tail(vs))
    ELSE Only({ Obj(<<Head(ks)>> \o rest.ks, <<Head(vs)>> \o rest.vs) :
                rest \in {ObjOf(Tail(ks), Tail(vs))} })

RECURSIVE stringifyOn(_, _, _)
stringifyOn(h, v, path) ==
    IF v.t # "ref"
    THEN v
    ELSE IF v.a \in path
    THEN Thrown("TypeError")
    ELSE Only({ IF \E i \in 1..Len(kids) : kids[i].t = "throw"
                THEN Thrown("TypeError")
                ELSE IF h[v.a].t = "arr"
                THEN Arr([i \in 1..Len(kids) |->
                            IF kids[i].t = "undef" THEN Null ELSE kids[i]])
                ELSE ObjOf(h[v.a].ks, kids) :
                kids \in {[i \in 1..Len(h[v.a].vs) |->
                            stringifyOn(h, h[v.a].vs[i], path \cup {v.a})]} })

\* JSON.stringify(v): the text, undefined for an undefined value, or a throw.
JSONstringify(h, v) == stringifyOn(h, v, {})

\* JSON.parse(text): a fresh structure, or a throw when text is no JSON text
\* (undefined is converted to the string "undefined", which does not parse).
JSONparse(h, text) ==
    IF text.t = "undef"
    THEN [h |-> h, v |-> Thrown("SyntaxError")]
    ELSE Build(h, text)

\* JSON.parse(JSON.stringify(v))
deepCopy(h, v) ==
    Only({ IF text.t = "throw" THEN [h |-> h, v |-> text] ELSE JSONparse(h, text) :
           text \in {JSONstringify(h, v)} })

(***************************************************************************)
(* cleanObject                                                             *)
(***************************************************************************)
RECURSIVE cleanObject(_, _, _), filterItems(_, _, _), mapItems(_, _, _),
          cleanProps(_, _, _, _, _)

\* As newObj, had the code written const newObj = obj: the loop then assigns
\* into the object it reads.
newObjInPlace(h, obj) == [h |-> h, a |-> obj.a]

\* const newObj = {} : a fresh empty object.
newObj(h, obj) == [h |-> Append(h, Obj(<<>>, <<>>)), a |-> Len(h) + 1]

\* Object.keys(cleaned).length > 0 || Array.isArray(cleaned) && cleaned.length > 0
keepCleaned(h, cleaned) ==
    \/ Len(OwnKeys(h, cleaned)) > 0
    \/ (IsArray(h, cleaned) /\ Len(h[cleaned.a].vs) > 0)

\* As keepScalar, had the code tested the value for truthiness.
keepScalarTruthy(val) == Truthy(val)

\* obj[key] !== '' for a value that is no object
keepScalar(val) == ~(val.t = "str" /\ val.s = "")

\* As filterKeep, had the callback counted the keys of the item itself, not
\* those of its cleaned form.
filterKeepRaw(st, h, item) ==
    IF IsNullish(item)
    THEN [h |-> h, keep |-> FALSE]
    ELSE IF TypeofObject(item)
    THEN [h |-> h, keep |-> Len(OwnKeys(h, item)) # 0]
    ELSE [h |-> h, keep |-> TRUE]

\* The callback of obj.filter: whether item stays in the array.
filterKeep(st, h, item) ==
    IF IsNullish(item)
    THEN [h |-> h, keep |-> FALSE]
    ELSE IF TypeofObject(item)
    THEN Only({ [h |-> c.h,
                 keep |-> /\ Len(OwnKeys(c.h, c.v)) # 0
                          /\ ~(IsArray(c.h, item) /\ Len(c.h[item.a].vs) = 0)] :
                c \in {cleanObject(st, h, item)} })
    ELSE [h |-> h, keep |-> TRUE]

filterItems(st, h, items) ==
    IF items = <<>>
    THEN [h |-> h, vs |-> <<>>]
    ELSE Only({ Only({ [h |-> rest.h,
                        vs |-> IF r.keep
                               THEN <<Head(items)>> \o rest.vs
                               ELSE rest.vs] :
                       rest \in {filterItems(st, r.h, Tail(items))} }) :
                r \in {filterKeep(st, h, Head(items))} })

\* The callback of .map, applied along the filtered array.
mapItems(st, h, items) ==
    IF items = <<>>
    THEN [h |-> h, vs |-> <<>>]
    ELSE Only({ Only({ [h |-> rest.h, vs |-> <<c.v>> \o rest.vs] :
                       rest \in {mapItems(st, c.h, Tail(items))} }) :
                c \in {IF TypeofObject(Head(items))
                       THEN cleanObject(st, h, Head(items))
                       ELSE [h |-> h, v |-> Head(items)]} })

\* One turn of the for (const key in obj) loop; a is the address of newObj.
cleanProp(st, h, obj, a, key) ==
    Only({ IF IsNullish(val)
           THEN h
           ELSE IF TypeofObject(val)
           THEN Only({ IF keepCleaned(c.h, c.v)
                       THEN SetProp(c.h, a, key, c.v)
                       ELSE c.h :
                       c \in {cleanObject(st, h, val)} })
           ELSE IF keepScalar(val)
           THEN SetProp(h, a, key, val)
           ELSE h :
           val \in {GetProp(h, obj, key)} })

\* The for (const key in obj) loop, over the keys ks that remain.
cleanProps(st, h, obj, a, ks) ==
    IF ks = <<>>
    THEN h
    ELSE Only({ cleanProps(st, h1, obj, a, Tail(ks)) :
                h1 \in {cleanProp(st, h, obj, a, Head(ks))} })

\* cleanObject(obj) under the settings st: the heap after the call and the
\* value returned.
cleanObject(st, h, obj) ==
    IF ~st.filterOutEmptyFields
    THEN [h |-> h, v |-> obj]
    ELSE IF IsNullish(obj)
    THEN [h |-> h, v |-> obj]
    ELSE IF IsArray(h, obj)
    THEN Only({ Only({ [h |-> Append(m.h, Arr(m.vs)), v |-> Ref(Len(m.h) + 1)] :
                       m \in {mapItems(st, f.h, f.vs)} }) :
                f \in {filterItems(st, h, h[obj.a].vs)} })
    ELSE IF TypeofObject(obj)
    THEN Only({ [h |-> cleanProps(st, n.h, obj, n.a, h[obj.a].ks), v |-> Ref(n.a)] :
                n \in {newObj(h, obj)} })
    ELSE [h |-> h, v |-> obj]

(***************************************************************************)
(* Input structures.                                                       *)
(***************************************************************************)
KeyNames == <<"a", "b", "c", "d", "e", "f", "g", "h">>

Leaves == {Null, Str(""), Num(0)}

RECURSIVE TreesOfSize(_), ForestsOfSize(_)

\* The structures of exactly n nodes; the i-th key of an object is KeyNames[i].
TreesOfSize(n) ==
    (IF n = 1 THEN Leaves ELSE {})
    \cup {Arr(f) : f \in ForestsOfSize(n - 1)}
    \cup {Obj(SubSeq(KeyNames, 1, Len(f)), f) : f \in ForestsOfSize(n - 1)}

\* The sequences of structures of m nodes in total.
ForestsOfSize(m) ==
    IF m = 0
    THEN {<<>>}
    ELSE UNION {{<<tr>> \o f : tr \in TreesOfSize(k), f \in ForestsOfSize(m - k)} :
                    k \in 1..m}

Trees == UNION {TreesOfSize(n) : n \in 1..MaxNodes}

Empty == Obj(<<>>, <<>>)

\* The structures the specification's examples name, and kin.
Examples ==
    { Arr(<<Num(1), Null, Str(""), Empty, Arr(<<>>), Str("ok")>>),
      Obj(<<"a", "b", "c", "d">>, <<Str(""), Num(0), Bool(FALSE), Null>>),
      Obj(<<"x", "z">>, <<Obj(<<"y">>, <<Arr(<<>>)>>), Arr(<<Empty>>)>>),
      Obj(<<"a", "b">>, <<Undefined, Str("ok")>>),
      Arr(<<Undefined, Bool(TRUE), Arr(<<Str("")>>)>>),
      Str("ok"), Bool(TRUE), Num(1), Undefined }

\* A section with content, one that prunes to nothing, and a chat log.
Section == Obj(<<"text", "additional_chat_log", "extension">>,
               <<Arr(<<Str("hi")>>), Arr(<<>>), Obj(<<"k">>, <<Num(1)>>)>>)
Hollow == Obj(<<"text", "extension">>, <<Arr(<<>>), Empty>>)
ChatLog == Arr(<<Str("m1"), Str("m2")>>)

SectionNames == <<"char_prompt", "user_prompt", "world_prompt",
                  "other_chars_prompt", "plugin_prompts", "chat_log">>

\* What a prompt structure may hold under each section name; Undefined
\* stands for a key that is absent.
SimpleOptions == {Undefined, Empty, Hollow, Section}
MappedOptions == {Undefined, Empty, Obj(<<"id1">>, <<Section>>),
                  Obj(<<"id1", "id2">>, <<Section, Null>>)}
ChatLogOptions == {Undefined, Arr(<<>>), ChatLog}

PromptStructs ==
    {ObjOf(SectionNames, <<c, u, w, o, p, l>>) :
        c \in SimpleOptions, u \in SimpleOptions, w \in SimpleOptions,
        o \in MappedOptions, p \in MappedOptions, l \in ChatLogOptions}

FullStruct == ObjOf(SectionNames, <<Section, Section, Section,
                    Obj(<<"id1">>, <<Section>>), Obj(<<"id1">>, <<Section>>), ChatLog>>)

\* An input of the caller: a structure, and whether its root also holds a
\* reference to itself under the key "self".
Input(tr, cyc) == [tree |-> tr, cyc |-> cyc]

Inputs ==
    {Input(tr, FALSE) : tr \in Trees \cup Examples \cup PromptStructs}
    \cup {Input(tr, TRUE) : tr \in {Empty, FullStruct}}

\* The caller's structure in an empty heap.
Place(in) ==
    Only({ IF in.cyc
           THEN [h |-> SetProp(b.h, b.v.a, "self", b.v), v |-> b.v]
           ELSE b :
           b \in {Build(<<>>, in.tree)} })

(***************************************************************************)
(* The console: the lines written so far, in order.                        *)
(***************************************************************************)
Line(k, m, arg) == [k |-> k, m |-> m, arg |-> arg]

RECURSIVE DepthAt(_, _)
\* Nesting depth of the console groups after the first n lines.
DepthAt(con, n) ==
    IF n = 0
    THEN 0
    ELSE Only({ CASE con[n].k = "group" -> d + 1
                  [] con[n].k = "groupEnd" -> IF d > 0 THEN d - 1 ELSE 0
                  [] OTHER -> d :
                d \in {DepthAt(con, n - 1)} })

Depth(con) == DepthAt(con, Len(con))

(***************************************************************************)
(* logPromptStruct.  The state of its try block is the heap, the console   *)
(* and the exception in flight (NoArg when there is none); a statement     *)
(* that follows a throw is skipped.                                        *)
(***************************************************************************)
emit(s, k, m, arg) ==
    IF s.err.t = "throw"
    THEN s
    ELSE [s EXCEPT !.con = Append(@, Line(k, m, arg))]

\* v.k, which throws when v is null or undefined.  A character of a string
\* is read as a string (which character is not modelled).
member(h, v, k) ==
    IF IsNullish(v)
    THEN Thrown("TypeError")
    ELSE IF v.t = "str" /\ KeyPos(OwnKeys(h, v), k) # 0
    THEN Str("?")
    ELSE GetProp(h, v, k)

\* console.log(label, sec[field]); the argument is read before the line is
\* written.
logField(s, label, sec, field) ==
    IF s.err.t = "throw"
    THEN s
    ELSE Only({ IF val.t = "throw"
                THEN [s EXCEPT !.err = val]
                ELSE emit(s, "log", label, Deref(s.h, val)) :
                val \in {member(s.h, sec, field)} })

\* The three console.log lines of a section.
sectionLines(s, sec) ==
    Only({ Only({ logField(s2, "Extensions:", sec, "extension") :
                  s2 \in {logField(s1, "Additional Chat Log:", sec, "additional_chat_log")} }) :
           s1 \in {logField(s, "Text Components:", sec, "text")} })

\* console.group(label); the three lines of sec; console.groupEnd()
sectionGroup(s, label, arg, sec) ==
    Only({ emit(s1, "groupEnd", "", NoArg) :
           s1 \in {sectionLines(emit(s, "group", label, arg), sec)} })

\* if (cleanedPromptStruct.char_prompt) { group; three lines; groupEnd }
simpleSection(s, c, key, label) ==
    IF s.err.t = "throw"
    THEN s
    ELSE Only({ IF sec.t = "throw"
                THEN [s EXCEPT !.err = sec]
                ELSE IF Truthy(sec)
                THEN sectionGroup(s, label, NoArg, sec)
                ELSE s :
                sec \in {member(s.h, c, key)} })

RECURSIVE entryGroups(_, _, _, _)
\* for (const id in section) { group; three lines; groupEnd }
entryGroups(s, sec, ks, label) ==
    IF ks = <<>> \/ s.err.t = "throw"
    THEN s
    ELSE Only({ entryGroups(s1, sec, Tail(ks), label) :
                s1 \in {sectionGroup(s, label, Str(Head(ks)),
                                     member(s.h, sec, Head(ks)))} })

\* if (Object.keys(cleanedPromptStruct.other_chars_prompt || {}).length > 0)
\*    { group; one group per id; groupEnd }
mappedSection(s, c, key, label, idLabel) ==
    IF s.err.t = "throw"
    THEN s
    ELSE Only({ IF sec.t = "throw"
                THEN [s EXCEPT !.err = sec]
                ELSE IF Truthy(sec) /\ Len(OwnKeys(s.h, sec)) > 0
                THEN Only({ emit(s1, "groupEnd", "", NoArg) :
                            s1 \in {entryGroups(emit(s, "group", label, NoArg),
                                                sec, OwnKeys(s.h, sec), idLabel)} })
                ELSE s :
                sec \in {member(s.h, c, key)} })

\* if (cleanedPromptStruct.chat_log) { group; one line; groupEnd }
chatLogSection(s, c) ==
    IF s.err.t = "throw"
    THEN s
    ELSE Only({ IF sec.t = "throw"
                THEN [s EXCEPT !.err = sec]
                ELSE IF Truthy(sec)
                THEN emit(emit(emit(s, "group", "Chat Log", NoArg),
                               "log", "Entries:", Deref(s.h, sec)),
                          "groupEnd", "", NoArg)
                ELSE s :
                sec \in {member(s.h, c, "chat_log")} })

\* The sections after the character prompt, in the order of the code.
restSections(s, c) ==
    Only({ Only({ Only({ Only({ chatLogSection(s5, c) :
        s5 \in {mappedSection(s4, c, "plugin_prompts", "Plugin Prompts", "Plugin ID")} }) :
        s4 \in {mappedSection(s3, c, "other_chars_prompt",
                              "Other Characters Prompts", "Character ID")} }) :
        s3 \in {simpleSection(s2, c, "world_prompt", "World Prompt")} }) :
        s2 \in {simpleSection(s, c, "user_prompt", "User Prompt")} })

\* The body of if (verboseLogging) { ... }
verboseSections(s, c) ==
    Only({ restSections(s1, c) :
           s1 \in {simpleSection(s, c, "char_prompt", "Character Prompt")} })

\* As verboseOn, had the code not tested the setting.
verboseAlways(st) == TRUE

\* if (extension_settings[extensionName].verboseLogging)
verboseOn(st) == st.verboseLogging

\* As catchReporter, had the catch block been left empty.
catchSilently(s) == [s EXCEPT !.err = NoArg]

\* catch (error) { console.error('Error in Prompt Debugger plugin:', error) }
catchReporter(s) ==
    IF s.err.t = "throw"
    THEN [s EXCEPT !.con = Append(@, Line("error", "Error in Prompt Debugger plugin:", s.err)),
                   !.err = NoArg]
    ELSE s

\* The statements from console.group to console.groupEnd, on the cleaned
\* structure cl.v.
reportLines(st, cl, con, chatId) ==
    Only({ Only({ emit(s4, "groupEnd", "", NoArg) :
                  s4 \in {IF verboseOn(st) THEN verboseSections(s3, cl.v) ELSE s3} }) :
           s3 \in {emit(emit(emit([h |-> cl.h, con |-> con, err |-> NoArg],
                        "group", "Prompt Structure", chatId),
                        "log", "Timestamp", NoArg),
                        "log", "Full Prompt Structure:", Deref(cl.h, cl.v))} })

\* The try block from the deep copy on.
reportBody(st, h, con, promptStruct, chatId) ==
    Only({ IF copy.v.t = "throw"
           THEN [h |-> copy.h, con |-> con, err |-> copy.v]
           ELSE Only({ reportLines(st, cl, con, chatId) :
                       cl \in {cleanObject(st, copy.h, copy.v)} }) :
           copy \in {deepCopy(h, promptStruct)} })

logPromptStruct(st, h, con, promptStruct, chatId) ==
    IF ~st.enabled
    THEN [h |-> h, con |-> con, err |-> NoArg]
    ELSE catchReporter(reportBody(st, h, con, promptStruct, chatId))

(***************************************************************************)
(* The listener of CHAT_COMPLETION_PROMPT_READY.                           *)
(***************************************************************************)
\* As handlerEnabled, had the listener not tested the setting.
handlerAlways(st) == TRUE

\* if (!extension_settings[extensionName].enabled) return;
handlerEnabled(st) == st.enabled

\* As structAvailable, had the listener not tested the field.
structAlways(ps) == TRUE

\* if (prompt_struct)
structAvailable(ps) == Truthy(ps)

\* catch (err) { console.error('... Error processing ... event', err) }
catchHandler(s) ==
    IF s.err.t = "throw"
    THEN [s EXCEPT !.con = Append(@, Line("error", "Error processing event", s.err)),
                   !.err = NoArg]
    ELSE s

\* The try block of the listener: const { prompt_struct, chat_id } = payload
\* throws on a payload that is null or undefined.
handlerBody(st, h, con, payload) ==
    Only({ IF ps.t = "throw"
           THEN [h |-> h, con |-> con, err |-> ps]
           ELSE IF structAvailable(ps)
           THEN logPromptStruct(st, h,
                   Append(con, Line("log", "Captured prompt for chat ID",
                                    member(h, payload, "chat_id"))),
                   ps, member(h, payload, "chat_id"))
           ELSE [h |-> h,
                 con |-> Append(con, Line("warn", "No prompt structure available in the payload", NoArg)),
                 err |-> NoArg] :
           ps \in {member(h, payload, "prompt_struct")} })

\* The listener applied to payload: heap and console after it, and the
\* exception that leaves it (NoArg when none does).
onPromptReady(st, h, con, payload) ==
    IF ~handlerEnabled(st)
    THEN [h |-> h, con |-> con, err |-> NoArg]
    ELSE catchHandler(handlerBody(st, h, con, payload))

(***************************************************************************)
(* State.                                                                  *)
(*   settings   extension_settings["prompt-debugger"]                      *)
(*   heap       the objects and arrays of the page                         *)
(*   orig       the caller's structure (the prompt structure of the last   *)
(*              event, or the argument of a direct call of cleanObject)    *)
(*   snapshot   orig read by value before the call                         *)
(*   console    the lines written to the console                           *)
(*   uncaught   the exception the last listener call let escape            *)
(*   delivered, toggles   events delivered and checkbox changes so far     *)
(*   pc         "idle" before the first event, then the kind of payload    *)
(*              of the last event; in SpecOnce the position of the caller  *)
(*   res1, res2 what cleanObject returned to a caller that applies it to   *)
(*              orig and then to the result                                *)
(***************************************************************************)
AllSettings ==
    [enabled : BOOLEAN, verboseLogging : BOOLEAN, filterOutEmptyFields : BOOLEAN]

defaultSettings ==
    [enabled |-> TRUE, verboseLogging |-> FALSE, filterOutEmptyFields |-> TRUE]

\* The lines the initialisation writes.
InitConsole ==
    << Line("log", "Initializing Prompt Debugger plugin...", NoArg),
       Line("log", "Prompt Debugger: Event listeners registered successfully", NoArg),
       Line("log", "Prompt Debugger plugin initialized successfully", NoArg) >>

ChatId == Num(7)

\* The payloads an event may carry.
PayloadKinds == {"full", "nostruct", "undefined"}

\* The payload object of kind k around the structure ps, placed in h.
PlacePayload(h, k, ps) ==
    CASE k = "full" ->
            [h |-> Append(h, Obj(<<"prompt_struct", "chat_id">>, <<ps, ChatId>>)),
             v |-> Ref(Len(h) + 1)]
      [] k = "nostruct" ->
            [h |-> Append(h, Obj(<<"chat_id">>, <<ChatId>>)), v |-> Ref(Len(h) + 1)]
      [] OTHER -> [h |-> h, v |-> Undefined]

\* The structures the events of Spec carry.
EventInputs ==
    { Input(FullStruct, FALSE), Input(FullStruct, TRUE),
      Input(Obj(<<"chat_log">>, <<ChatLog>>), FALSE),
      Input(ObjOf(SectionNames, <<Empty, Undefined, Hollow, Undefined,
                    Obj(<<"id1", "id2">>, <<Section, Null>>), Arr(<<>>)>>), FALSE) }

\* What the emitter holds when the payload carries no structure.
NoInput == Input(Undefined, FALSE)

\* loadSettings: the stored settings, the defaults when nothing is stored.
InitCommon ==
    /\ settings \in AllSettings
    /\ console = InitConsole
    /\ uncaught = NoArg
    /\ delivered = 0
    /\ toggles = 0
    /\ res1 = Undefined
    /\ res2 = Undefined

Init ==
    /\ InitCommon
    /\ heap = <<>>
    /\ orig = Undefined
    /\ snapshot = Undefined
    /\ pc = "idle"

\* The event source emits CHAT_COMPLETION_PROMPT_READY with a payload of
\* kind k around the structure in; the listener runs to completion.
Emit(k, in) ==
    \E p \in {Place(in)} :
      \E pl \in {PlacePayload(p.h, k, p.v)} :
        \E r \in {onPromptReady(settings, pl.h, console, pl.v)} :
           /\ orig' = p.v
           /\ snapshot' = Deref(p.h, p.v)
           /\ heap' = r.h
           /\ console' = r.con
           /\ uncaught' = r.err

Deliver(k, in) ==
    /\ pc \in {"idle"} \cup PayloadKinds
    /\ delivered < MaxEvents
    /\ (k = "full") <=> (in # NoInput)
    /\ Emit(k, in)
    /\ delivered' = delivered + 1
    /\ pc' = k
    /\ UNCHANGED <<settings, toggles, res1, res2>>

\* A change of a checkbox: the handler stores the state of the checkbox,
\* which the user has just flipped, and writes a status line.
Changed(field, label) ==
    /\ pc \in {"idle"} \cup PayloadKinds
    /\ toggles < MaxToggles
    /\ settings' = [settings EXCEPT ![field] = ~@]
    /\ console' = Append(console,
                    Line("log", label,
                         Str(IF settings[field] THEN "disabled" ELSE "enabled")))
    /\ toggles' = toggles + 1
    /\ UNCHANGED <<heap, orig, snapshot, uncaught, delivered, pc, res1, res2>>

onEnabledChanged == Changed("enabled", "Prompt Debugger:")
onVerboseLoggingChanged == Changed("verboseLogging", "Prompt Debugger: Verbose logging")
onFilterEmptyChanged == Changed("filterOutEmptyFields", "Prompt Debugger: Filtering empty fields")

Next ==
    \/ \E k \in PayloadKinds, in \in EventInputs \cup {NoInput} : Deliver(k, in)
    \/ onEnabledChanged
    \/ onVerboseLoggingChanged
    \/ onFilterEmptyChanged

Spec == Init /\ [][Next]_vars

(***************************************************************************)
(* A single caller: it holds one structure, and either applies cleanObject *)
(* to it and then to the result, or hands it to one prompt-ready event.    *)
(***************************************************************************)
InitOnce ==
    /\ InitCommon
    /\ \E in \in Inputs :
         \E p \in {Place(in)} :
            /\ heap = p.h
            /\ orig = p.v
            /\ snapshot = Deref(p.h, p.v)
    /\ pc = "start"

CallClean ==
    /\ pc = "start"
    /\ ~HasCycle(snapshot)
    /\ \E r \in {cleanObject(settings, heap, orig)} :
          heap' = r.h /\ res1' = r.v
    /\ pc' = "cleaned"
    /\ UNCHANGED <<settings, orig, snapshot, console, uncaught, delivered, toggles, res2>>

CallCleanAgain ==
    /\ pc = "cleaned"
    /\ \E r \in {cleanObject(settings, heap, res1)} :
          heap' = r.h /\ res2' = r.v
    /\ pc' = "again"
    /\ UNCHANGED <<settings, orig, snapshot, console, uncaught, delivered, toggles, res1>>

DeliverOnce(k) ==
    /\ pc = "start"
    /\ \E pl \in {PlacePayload(heap, k, orig)} :
       \E r \in {onPromptReady(settings, pl.h, console, pl.v)} :
          /\ heap' = r.h
          /\ console' = r.con
          /\ uncaught' = r.err
    /\ delivered' = delivered + 1
    /\ pc' = k
    /\ UNCHANGED <<settings, orig, snapshot, toggles, res1, res2>>

NextOnce ==
    \/ CallClean
    \/ CallCleanAgain
    \/ \E k \in PayloadKinds : DeliverOnce(k)

SpecOnce == InitOnce /\ [][NextOnce]_vars

(***************************************************************************)
(* Vocabulary of the properties.                                           *)
(***************************************************************************)
FilterOn == [defaultSettings EXCEPT !.filterOutEmptyFields = TRUE]

\* cleanObject applied, with filtering on, to the structure tr by value.
CleanTree(tr) ==
    Only({ Only({ Deref(c.h, c.v) : c \in {cleanObject(FilterOn, b.h, b.v)} }) :
           b \in {Build(<<>>, tr)} })

IsContainer(tr) == tr.t \in {"arr", "obj"}
IsEmptyContainer(tr) == IsContainer(tr) /\ Len(tr.vs) = 0

\* A member that pruning is to remove: null, undefined, the empty string,
\* or a container whose cleaned form is empty.
Prunable(tr) ==
    \/ tr.t \in {"null", "undef"}
    \/ (tr.t = "str" /\ tr.s = "")
    \/ (IsContainer(tr) /\ IsEmptyContainer(CleanTree(tr)))

RECURSIVE KeptElements(_)
\* The cleaned forms of the elements of vs that are not prunable, in order.
KeptElements(vs) ==
    IF vs = <<>>
    THEN <<>>
    ELSE IF Prunable(Head(vs))
    THEN KeptElements(Tail(vs))
    ELSE <<CleanTree(Head(vs))>> \o KeptElements(Tail(vs))

RECURSIVE KeptProps(_, _)
\* The object of the keys whose value is not prunable, with cleaned values.
KeptProps(ks, vs) ==
    IF ks = <<>>
    THEN Obj(<<>>, <<>>)
    ELSE IF Prunable(Head(vs))
    THEN KeptProps(Tail(ks), Tail(vs))
    ELSE Only({ Obj(<<Head(ks)>> \o rest.ks, <<CleanTree(Head(vs))>> \o rest.vs) :
                rest \in {KeptProps(Tail(ks), Tail(vs))} })

RECURSIVE NoEmptyProp(_)
\* No object of tr, at any depth, has a key whose value is null, undefined,
\* the empty string or an empty container.
NoEmptyProp(tr) ==
    \/ ~IsContainer(tr)
    \/ /\ \A i \in 1..Len(tr.vs) : NoEmptyProp(tr.vs[i])
       /\ tr.t = "obj" =>
            \A i \in 1..Len(tr.vs) :
                /\ tr.vs[i].t \notin {"null", "undef"}
                /\ tr.vs[i] # Str("")
                /\ ~IsEmptyContainer(tr.vs[i])

\* What cleanObject returned, by value.
Result1 == Deref(heap, res1)
Result2 == Deref(heap, res2)

\* In SpecOnce: the lines written since initialisation.
Written == SubSeq(console, Len(InitConsole) + 1, Len(console))

\* Severity and text of each line.
Shape(lines) == [i \in 1..Len(lines) |-> <<lines[i].k, lines[i].m>>]

HasLine(lines, k) == \E i \in 1..Len(lines) : lines[i].k = k

CapturedLine == <<"log", "Captured prompt for chat ID">>
TopGroup == <<"group", "Prompt Structure">>
TimestampLine == <<"log", "Timestamp">>
StructureLine == <<"log", "Full Prompt Structure:">>
GroupEnd == <<"groupEnd", "">>
ReporterError == <<"error", "Error in Prompt Debugger plugin:">>
WarnLine == <<"warn", "No prompt structure available in the payload">>

ExampleArray == Arr(<<Num(1), Null, Str(""), Empty, Arr(<<>>), Str("ok")>>)
ExampleScalars == Obj(<<"a", "b", "c", "d">>, <<Str(""), Num(0), Bool(FALSE), Null>>)
ExampleNested == Obj(<<"x", "z">>, <<Obj(<<"y">>, <<Arr(<<>>)>>), Arr(<<Empty>>)>>)

(***************************************************************************)
(* C1.  With filtering on, cleanObject applied to an array returns the     *)
(* array of the cleaned forms, in order, of exactly the elements that are  *)
(* not null or undefined, not the empty string, not an object that cleans  *)
(* to no keys and not an empty array; [1, null, "", {}, [], "ok"] yields   *)
(* [1, "ok"].  (The code keeps the empty string in an array.)              *)
(***************************************************************************)
C1_ArrayKeepsExactlyNonEmpty ==
    (pc = "cleaned" /\ settings.filterOutEmptyFields /\ snapshot.t = "arr") =>
        /\ Result1 = Arr(KeptElements(snapshot.vs))
        /\ snapshot = ExampleArray => Result1 = Arr(<<Num(1), Str("ok")>>)

(***************************************************************************)
(* C2.  With filtering on, cleanObject applied to an object returns a new  *)
(* object that holds exactly the keys whose value is a scalar other than   *)
(* the empty string (0 and false are kept) or a container whose cleaned    *)
(* form is not empty, each with its cleaned value; no object of the result *)
(* at any depth keeps a null, undefined, "" or empty container;            *)
(* {a: "", b: 0, c: false, d: null} yields {b: 0, c: false} and            *)
(* {x: {y: []}, z: [{}]} yields {}.                                        *)
(***************************************************************************)
C2_ObjectKeepsExactlyNonEmpty ==
    (pc = "cleaned" /\ settings.filterOutEmptyFields /\ snapshot.t = "obj") =>
        /\ Result1 = KeptProps(snapshot.ks, snapshot.vs)
        /\ NoEmptyProp(Result1)
        /\ res1.t = "ref" /\ res1.a > orig.a
        /\ snapshot = ExampleScalars =>
                Result1 = Obj(<<"b", "c">>, <<Num(0), Bool(FALSE)>>)
        /\ snapshot = ExampleNested => Result1 = Empty

C2_Witness ==
    /\ pc = "cleaned" /\ settings.filterOutEmptyFields
    /\ snapshot = ExampleScalars
    /\ Result1 = Obj(<<"b", "c">>, <<Num(0), Bool(FALSE)>>)

(***************************************************************************)
(* C3.  Filtering is idempotent: with filtering on, cleanObject applied to *)
(* the result of cleanObject returns a structure equal to that result.     *)
(***************************************************************************)
C3_Idempotent ==
    (pc = "again" /\ settings.filterOutEmptyFields) => Result2 = Result1

C3_Witness ==
    /\ pc = "again" /\ settings.filterOutEmptyFields
    /\ Result1 # snapshot
    /\ IsContainer(Result1) /\ Len(Result1.vs) > 0
    /\ Result2 = Result1

(***************************************************************************)
(* C4.  The caller's structure is never changed: after cleanObject, after  *)
(* cleanObject again, and after the complete handling of a prompt-ready    *)
(* event, under any settings, it equals its snapshot taken before.         *)
(***************************************************************************)
C4_OriginalUnchanged == Deref(heap, orig) = snapshot

C4_Witness ==
    /\ pc = "full" /\ settings.enabled /\ settings.filterOutEmptyFields
    /\ \E i \in 1..Len(Written) :
          /\ Written[i].m = "Full Prompt Structure:"
          /\ Written[i].arg # snapshot
    /\ Deref(heap, orig) = snapshot

(***************************************************************************)
(* C7.  With enabled on and verboseLogging off, the report of a structure  *)
(* the event carries is exactly: the top-level group opened, the timestamp *)
(* line, the full-structure line, the group closed; no sub-group.          *)
(***************************************************************************)
C7_PlainReport ==
    (/\ pc = "full" /\ settings.enabled /\ ~settings.verboseLogging
     /\ Truthy(orig) /\ ~HasCycle(snapshot)) =>
        Shape(Written) =
            <<CapturedLine, TopGroup, TimestampLine, StructureLine, GroupEnd>>

C7_Witness ==
    /\ pc = "full" /\ settings.enabled /\ ~settings.verboseLogging
    /\ snapshot = FullStruct
    /\ Len(Written) = 5

(***************************************************************************)
(* C8.  In verbose mode, under every setting of filterOutEmptyFields, a    *)
(* report that ran to its end has a sub-group for a known section if and   *)
(* only if that section is present and not empty in the structure that is  *)
(* logged, and the sub-groups come in the order char, user, world, other   *)
(* characters, plugins, chat log.  (The code opens a sub-group for an      *)
(* empty char_prompt, user_prompt, world_prompt or chat_log when filtering *)
(* is off.)                                                                *)
(***************************************************************************)
SectionLabels == <<"Character Prompt", "User Prompt", "World Prompt",
                   "Other Characters Prompts", "Plugin Prompts", "Chat Log">>

\* The structure the full-structure line shows.
Logged == (CHOOSE i \in 1..Len(Written) : Shape(Written)[i] = StructureLine)

PresentNotEmpty(tr, key) ==
    /\ tr.t = "obj"
    /\ KeyPos(tr.ks, key) # 0
    /\ tr.vs[KeyPos(tr.ks, key)].t \notin {"null", "undef"}
    /\ tr.vs[KeyPos(tr.ks, key)] # Str("")
    /\ ~IsEmptyContainer(tr.vs[KeyPos(tr.ks, key)])

SubGroupsMatchSections ==
    /\ \A n \in 1..Len(SectionNames) :
          (\E i \in 1..Len(Written) :
                Shape(Written)[i] = <<"group", SectionLabels[n]>>)
          <=> PresentNotEmpty(Written[Logged].arg, SectionNames[n])
    /\ \A i, j \in 1..Len(Written) :
          (/\ i < j
           /\ Written[i].k = "group" /\ KeyPos(SectionLabels, Written[i].m) # 0
           /\ Written[j].k = "group" /\ KeyPos(SectionLabels, Written[j].m) # 0)
          => KeyPos(SectionLabels, Written[i].m) < KeyPos(SectionLabels, Written[j].m)

C8_SubGroupIffSectionNonEmpty ==
    (/\ pc = "full" /\ settings.enabled /\ settings.verboseLogging
     /\ Truthy(orig) /\ ~HasCycle(snapshot)
     /\ ~HasLine(Written, "error")) => SubGroupsMatchSections

(***************************************************************************)
(* C10.  Console grouping is balanced: when the listener returns, under    *)
(* any settings and for any structure, every group it opened is closed.    *)
(* (The code leaves three groups open when an entry of other_chars_prompt  *)
(* or plugin_prompts is null and filtering is off.)                        *)
(***************************************************************************)
C10_GroupsBalanced == pc \in PayloadKinds => Depth(console) = 0

(***************************************************************************)
(* C9.  When the event is delivered with no prompt_struct in its payload,  *)
(* the listener writes the warning line and nothing else, logs no error    *)
(* and lets no exception escape.  As stated, for every setting, this fails *)
(* when enabled is off (nothing is written); it holds when enabled is on.  *)
(***************************************************************************)
C9_AbsentStructWarns ==
    pc = "nostruct" => (Shape(Written) = <<WarnLine>> /\ uncaught = NoArg)

C9_AbsentStructWarnsWhenEnabled ==
    (pc = "nostruct" /\ settings.enabled) =>
        (Shape(Written) = <<WarnLine>> /\ uncaught = NoArg)

C9_Witness ==
    /\ pc = "nostruct" /\ settings.enabled
    /\ Shape(Written) = <<WarnLine>>

(***************************************************************************)
(* Steps of Spec: the lines a step appends to the console.                 *)
(***************************************************************************)
Appended == SubSeq(console', Len(console) + 1, Len(console'))

EventStep == delivered' = delivered + 1

\* A structure of the data model: an object, without cycle, whose
\* other_chars_prompt and plugin_prompts hold no null entry.
NoNullEntry(tr, key) ==
    (KeyPos(tr.ks, key) # 0 /\ IsContainer(tr.vs[KeyPos(tr.ks, key)])) =>
        \A i \in 1..Len(tr.vs[KeyPos(tr.ks, key)].vs) :
            tr.vs[KeyPos(tr.ks, key)].vs[i].t \notin {"null", "undef"}

ValidStruct(tr) ==
    /\ tr.t = "obj"
    /\ ~HasCycle(tr)
    /\ NoNullEntry(tr, "other_chars_prompt")
    /\ NoNullEntry(tr, "plugin_prompts")

\* The lines of an event whose report ran from its first line to its last.
FullReport(lines, verbose) ==
    /\ Len(lines) >= 5
    /\ SubSeq(Shape(lines), 1, 4) =
            <<CapturedLine, TopGroup, TimestampLine, StructureLine>>
    /\ Shape(lines)[Len(lines)] = GroupEnd
    /\ ~HasLine(lines, "error") /\ ~HasLine(lines, "warn")
    /\ Depth(lines) = 0
    /\ (Len(lines) > 5) = (verbose /\ lines[4].arg # Empty)

(***************************************************************************)
(* C5.  With enabled on, an event whose structure refers to itself writes  *)
(* the captured line and one error line of the reporter, nothing of the    *)
(* report, and no exception escapes; every event with a valid structure,   *)
(* also one that follows such a failure, writes its full report.           *)
(***************************************************************************)
C5_CycleAbortsThisReportOnly ==
    [][ (EventStep /\ settings.enabled /\ pc' = "full") =>
          /\ HasCycle(snapshot') =>
                (Shape(Appended) = <<CapturedLine, ReporterError>>
                 /\ uncaught' = NoArg)
          /\ ValidStruct(snapshot') =>
                (FullReport(Appended, settings.verboseLogging)
                 /\ uncaught' = NoArg) ]_vars

C5_Witness ==
    /\ delivered = 2 /\ pc = "full" /\ settings.enabled
    /\ ValidStruct(snapshot)
    /\ Shape(console)[Len(console)] = GroupEnd
    /\ \E i, j \in 1..Len(console) :
          /\ i < j
          /\ Shape(console)[i] = ReporterError
          /\ Shape(console)[j] = StructureLine

(***************************************************************************)
(* C6.  An event writes to the console if and only if enabled is on when   *)
(* it is delivered, and no step (event or change of a setting) alters a    *)
(* line already written.                                                   *)
(***************************************************************************)
C6_OutputIffEnabled ==
    [][ /\ EventStep => ((console' # console) <=> settings.enabled)
        /\ Len(console') >= Len(console)
        /\ SubSeq(console', 1, Len(console)) = console ]_vars

\* Two events, one change of enabled (to off) in between: the first event
\* wrote its report, the second wrote nothing.
C6_Witness ==
    /\ delivered = 2 /\ toggles = 1 /\ ~settings.enabled
    /\ Shape(console)[Len(console)] = <<"log", "Prompt Debugger:">>
    /\ Cardinality({i \in 1..Len(console) : Shape(console)[i] = CapturedLine}) = 1
    /\ ~HasLine(console, "warn") /\ ~HasLine(console, "error")

====
